---- MODULE Spec2Model ----
(***************************************************************************)
(* A model of the CSV-cleaner repository: the article-key normalisers of   *)
(* src/app.py and src/inbiz_pipeline.py, the freeform-table parsers and    *)
(* the aggregators of src/inbiz_pipeline.py, the classifier of             *)
(* src/flexible_parser.py, and the routes of src/app.py.                   *)
(*                                                                         *)
(* Text is modelled as a sequence of symbols.  A symbol is a one-character *)
(* string, or (in header and metric cells only) a whole word that the code *)
(* only ever looks for as a unit ("Entries", "120", ...).  A line of a     *)
(* file is the sequence of its comma-separated fields, i.e. the value of   *)
(* ln.split(",").                                                          *)
(***************************************************************************)
EXTENDS Integers, Sequences, FiniteSets, TLC

VARIABLES
    raw,      \* key spec: the string handed to the normaliser
    out1,     \* key spec: the normaliser applied once
    out2,     \* key spec: the normaliser applied to out1
    kpc,      \* key spec: "raw" | "once" | "twice" | "idle"
    lines,    \* the text lines of the file being parsed (each a sequence of fields)
    kind,     \* "traffic" | "channels": which parser / aggregator applies
    cols,     \* the metric column names of df, in header order
    df,       \* the parsed table: a sequence of rows
    agg,      \* the aggregated table: a sequence of rows
    ppc,      \* pipeline position: "file" | "parsed" | "aggregated" | "split" |
              \* "error" | "idle"
    PROCESSED_FILES,  \* app.py: the stored uploads, a token being a position
    final_results,    \* app.py process_all: the four tables handed to the sink
    runs,             \* the number of requests served
    analysis, \* flexible_parser.py: the result of analyze_csv_structure on lines
    cpc,      \* classifier position: "file" | "done" | "idle"
    files,    \* app.py process_batch: the uploads of the last batch request
    summary,  \* app.py process_batch: the per-file entries shown to the user
    response  \* app.py: how the last request ended: "none" | "page" |
              \* "redirect" | "file", or the exception that left the route:
              \* "ValueError" | "KeyError" | "IndexError"

keyVars == <<raw, out1, out2, kpc>>
pipeVars == <<lines, kind, cols, df, agg, ppc>>
appVars == <<PROCESSED_FILES, final_results, runs>>
clsVars == <<analysis, cpc>>
reqVars == <<files, summary, response>>

---------------------------------------------------------------------------
(* Strings                                                                 *)

\* The characters of the model, in code-point order (str comparison order).
CharOrder ==
    << " ", "#", "-", ".", "/", "?",
       "A", "B", "C", "E", "G", "H", "I", "L", "M", "N", "O", "P", "R", "S", "T",
       "\\", "_",
       "a", "b", "c", "e", "g", "h", "i", "l", "m", "n", "o", "p", "r", "s", "t" >>

Ord(c) == CHOOSE i \in 1..Len(CharOrder) : CharOrder[i] = c

UpperLetters ==
    <<"A", "B", "C", "D", "E", "F", "G", "H", "I", "L", "M", "N", "O", "P", "R", "S",
      "T", "U", "V">>
LowerLetters ==
    <<"a", "b", "c", "d", "e", "f", "g", "h", "i", "l", "m", "n", "o", "p", "r", "s",
      "t", "u", "v">>

\* str.lower() on one character
LowerChar(c) ==
    IF \E i \in 1..Len(UpperLetters) : UpperLetters[i] = c
    THEN LowerLetters[CHOOSE i \in 1..Len(UpperLetters) : UpperLetters[i] = c]
    ELSE c

\* str.upper() on one character
UpperChar(c) ==
    IF \E i \in 1..Len(LowerLetters) : LowerLetters[i] = c
    THEN UpperLetters[CHOOSE i \in 1..Len(LowerLetters) : LowerLetters[i] = c]
    ELSE c

Lower(s) == [i \in 1..Len(s) |-> LowerChar(s[i])]

StartsWith(s, p) == Len(s) >= Len(p) /\ SubSeq(s, 1, Len(p)) = p

EndsWith(s, p) == Len(s) >= Len(p) /\ SubSeq(s, Len(s) - Len(p) + 1, Len(s)) = p

\* str.lstrip(chars), str.rstrip(chars)
RECURSIVE LStripSet(_, _)
LStripSet(s, cs) ==
    IF s # <<>> /\ s[1] \in cs THEN LStripSet(Tail(s), cs) ELSE s

RECURSIVE RStripSet(_, _)
RStripSet(s, cs) ==
    IF s # <<>> /\ s[Len(s)] \in cs THEN RStripSet(SubSeq(s, 1, Len(s) - 1), cs) ELSE s

Whitespace == {" "}

\* str.strip()
Strip(s) == RStripSet(LStripSet(s, Whitespace), Whitespace)

\* re.sub(r"[?#].*$", "", s): cut at the first '?' or '#'
CutQueryFragment(s) ==
    LET hits == {i \in 1..Len(s) : s[i] \in {"?", "#"}}
    IN  IF hits = {} THEN s
        ELSE SubSeq(s, 1, (CHOOSE i \in hits : \A j \in hits : i <= j) - 1)

\* re.sub(r"/+", "/", s): a run of slashes becomes one slash
RECURSIVE CollapseSlashes(_)
CollapseSlashes(s) ==
    IF Len(s) < 2 THEN s
    ELSE IF s[1] = "/" /\ s[2] = "/" THEN CollapseSlashes(Tail(s))
    ELSE <<s[1]>> \o CollapseSlashes(Tail(s))

\* re.sub(r"\\.html?$", "", s, flags=re.IGNORECASE) as written in app.py:131.
\* In a raw string the pattern is: a backslash, any one character, "htm",
\* an optional "l", end of string.
StripBackslashExt(s) ==
    LET n == Len(s)
        l == Lower(s)
    IN  IF n >= 6 /\ s[n-5] = "\\" /\ SubSeq(l, n-3, n) = <<"h", "t", "m", "l">>
        THEN SubSeq(s, 1, n - 6)
        ELSE IF n >= 5 /\ s[n-4] = "\\" /\ SubSeq(l, n-2, n) = <<"h", "t", "m">>
        THEN SubSeq(s, 1, n - 5)
        ELSE s

\* re.sub(r"\.html?$", "", s) with or without re.IGNORECASE
StripExt(s, ignorecase) ==
    LET t == IF ignorecase THEN Lower(s) ELSE s
    IN  IF EndsWith(t, <<".", "h", "t", "m", "l">>) THEN SubSeq(s, 1, Len(s) - 5)
        ELSE IF EndsWith(t, <<".", "h", "t", "m">>) THEN SubSeq(s, 1, Len(s) - 4)
        ELSE s

\* re.sub(r"^/(it|en)/", "/", s, flags=re.IGNORECASE)
DropLocale(s) ==
    IF Len(s) >= 4 /\ s[1] = "/" /\ s[4] = "/"
       /\ Lower(SubSeq(s, 2, 3)) \in {<<"i", "t">>, <<"e", "n">>}
    THEN <<"/">> \o SubSeq(s, 5, Len(s))
    ELSE s

vars == <<keyVars, pipeVars, appVars, clsVars, reqVars>>

---------------------------------------------------------------------------
(* Key normalisers                                                         *)

\* app.py _normalize_articlekey_for_split
normalize_articlekey_for_split(path) ==
    LET s1 == Strip(path)
        s2 == CutQueryFragment(s1)
        s3 == StripBackslashExt(s2)
        s4 == CollapseSlashes(s3)
        s5 == DropLocale(s4)
        s6 == IF StartsWith(s5, <<"/">>) THEN s5 ELSE <<"/">> \o s5
        s7 == RStripSet(s6, {"/"})
    IN  Lower(s7)

\* inbiz_pipeline.py _normalize_key
normalize_key(path_str) ==
    LET s == Strip(path_str)
    IN  IF s = <<>> THEN s
        ELSE IF StartsWith(s, <<"/">>)
             THEN StripExt(RStripSet(s, {"/"}), FALSE)
             ELSE s

\* re.sub(r"X+", " ", s) for a character class X: each run becomes one space
RECURSIVE RunsToSpace(_, _)
RunsToSpace(s, cs) ==
    IF s = <<>> THEN s
    ELSE IF s[1] \in cs
         THEN <<" ">> \o RunsToSpace(LStripSet(s, cs), cs)
         ELSE <<s[1]>> \o RunsToSpace(Tail(s), cs)

\* s.split("/")[-1]
LastSegment(s) ==
    LET hits == {i \in 1..Len(s) : s[i] = "/"}
    IN  IF hits = {} THEN s
        ELSE SubSeq(s, (CHOOSE i \in hits : \A j \in hits : j <= i) + 1, Len(s))

\* The characters of the class [\(\)\[\]{}\.,;:!\?\"'] that the alphabet holds
Punctuation == {".", "?"}

\* app.py _extract_name_from_key
extract_name_from_key(path, capitalize_first) ==
    LET s1   == Strip(path)
        s2   == CutQueryFragment(s1)
        s3   == CollapseSlashes(s2)
        s4   == RStripSet(s3, {"/"})
        seg1 == LastSegment(s4)
        seg2 == StripExt(seg1, TRUE)
        seg3 == [i \in 1..Len(seg2) |-> IF seg2[i] = "_" THEN "-" ELSE seg2[i]]
        seg4 == RunsToSpace(seg3, {"-"})
        seg5 == RunsToSpace(seg4, Punctuation)
        seg6 == Strip(RunsToSpace(seg5, Whitespace))
    IN  IF capitalize_first /\ seg6 # <<>>
        THEN <<UpperChar(seg6[1])>> \o Tail(seg6)
        ELSE seg6

\* The locale lambda of parse_traffic / parse_channels / aggregate_*
lang_of(s) ==
    IF StartsWith(s, <<"/", "i", "t", "/">>) THEN "IT"
    ELSE IF StartsWith(s, <<"/", "e", "n", "/">>) THEN "EN"
    ELSE "OTHER"

---------------------------------------------------------------------------
(* Key specification: the normaliser applied to bounded strings            *)

MaxFrags == 3

KeyFragments ==
    { <<"/", "i", "t", "/">>, <<"/", "e", "n", "/">>, <<"/">>, <<"a">>, <<"A">>,
      <<".", "h", "t", "m", "l">>, <<"?", "a">>, <<" ">>,
      <<"\\", ".", "h", "t", "m">> }

RECURSIVE Concat(_)
Concat(ss) == IF ss = <<>> THEN <<>> ELSE Head(ss) \o Concat(Tail(ss))

KeyInputs ==
    { Concat(fs) : fs \in UNION { [1..n -> KeyFragments] : n \in 0..MaxFrags } }

IdleKey == raw = <<>> /\ out1 = <<>> /\ out2 = <<>> /\ kpc = "idle"

NoResults == [channels_it |-> <<>>, channels_en |-> <<>>, traffic_it |-> <<>>, traffic_en |-> <<>>]

IdleApp == PROCESSED_FILES = <<>> /\ final_results = NoResults /\ runs = 0

IdlePipe ==
    lines = <<>> /\ kind = "traffic" /\ cols = <<>> /\ df = <<>> /\ agg = <<>> /\ ppc = "idle"

NoAnalysis == [type |-> "none", confidence |-> 0, columns |-> <<>>, reason |-> "none"]

IdleCls == analysis = NoAnalysis /\ cpc = "idle"

IdleReq == files = <<>> /\ summary = <<>> /\ response = "none"

InitKey ==
    /\ raw \in KeyInputs
    /\ out1 = <<>>
    /\ out2 = <<>>
    /\ kpc = "raw"
    /\ IdlePipe
    /\ IdleApp
    /\ IdleCls
    /\ IdleReq

NormalizeForSplit ==
    /\ kpc = "raw"
    /\ out1' = normalize_articlekey_for_split(raw)
    /\ kpc' = "once"
    /\ UNCHANGED <<raw, out2, pipeVars, appVars, clsVars, reqVars>>

NormalizeAgain ==
    /\ kpc = "once"
    /\ out2' = normalize_articlekey_for_split(out1)
    /\ kpc' = "twice"
    /\ UNCHANGED <<raw, out1, pipeVars, appVars, clsVars, reqVars>>

NextKey == NormalizeForSplit \/ NormalizeAgain

SpecKey == InitKey /\ [][NextKey]_vars

\* C3: _normalize_articlekey_for_split is idempotent: applying it to its own
\* result changes nothing.
C3_Idempotent == kpc = "twice" => out2 = out1

\* C4: for every path p without '?', '#', trailing slash or extension, the
\* normal form of '/it/' + p + '.html' is the normal form of '/' + p.
C4_LocaleAndExtensionConverge ==
    kpc = "once" =>
        \A p \in KeyInputs :
            ( /\ raw = <<"/", "i", "t", "/">> \o p \o <<".", "h", "t", "m", "l">>
              /\ \A i \in 1..Len(p) : p[i] \notin {"?", "#", " "}
              /\ ~EndsWith(p, <<"/">>)
              /\ StripExt(p, TRUE) = p )
            => out1 = normalize_articlekey_for_split(<<"/">> \o p)

---------------------------------------------------------------------------
(* Numbers: a metric cell is a rational number or missing (NaN)            *)

NaN == [nan |-> TRUE, n |-> 0, d |-> 1]

Abs(x) == IF x < 0 THEN 0 - x ELSE x

RECURSIVE Gcd(_, _)
Gcd(a, b) == IF b = 0 THEN a ELSE Gcd(b, a % b)

\* The rational n/d (d > 0) in lowest terms
Q(n, d) == LET g == Gcd(Abs(n), d) IN [nan |-> FALSE, n |-> n \div g, d |-> d \div g]

Num(k) == Q(k, 1)

QAdd(a, b) == Q(a.n * b.d + b.n * a.d, a.d * b.d)

\* float multiplication: missing if either operand is missing
QMul(a, b) == IF a.nan \/ b.nan THEN NaN ELSE Q(a.n * b.n, a.d * b.d)

\* a / b for b > 0
QDiv(a, b) == Q(a.n * b.d, a.d * b.n)

\* np.nansum and the pandas "sum" reduction: missing values count as 0
RECURSIVE NanSum(_)
NanSum(vs) ==
    IF vs = <<>> THEN Num(0)
    ELSE IF Head(vs).nan THEN NanSum(Tail(vs))
    ELSE QAdd(Head(vs), NanSum(Tail(vs)))

IsPresent(v) == ~v.nan

\* the pandas "mean" reduction: the mean of the present values, missing if none
Mean(vs) ==
    LET present == SelectSeq(vs, IsPresent)
    IN  IF present = <<>> THEN NaN ELSE QDiv(NanSum(present), Num(Len(present)))

\* Series.fillna(other)
FillNa(v, other) == IF v.nan THEN other ELSE v

\* Series.replace(0, np.nan)
ReplaceZero(v) == IF ~v.nan /\ v.n = 0 THEN NaN ELSE v

---------------------------------------------------------------------------
(* Tables and aggregation                                                  *)

TrafficCols ==
    <<"Entries", "Exit Rate", "Time Spent per Visit (seconds)", "Unique Visitors",
      "Page Views">>

ChannelCols ==
    <<"Organic Search", "Direct", "Internal traffic", "Referring Domains",
      "Social Networks">>

Range(f) == {f[i] : i \in DOMAIN f}

\* str < str: comparison by code points, a proper prefix first
RECURSIVE LexLess(_, _)
LexLess(a, b) ==
    IF b = <<>> THEN FALSE
    ELSE IF a = <<>> THEN TRUE
    ELSE IF a[1] = b[1] THEN LexLess(Tail(a), Tail(b))
    ELSE Ord(a[1]) < Ord(b[1])

RECURSIVE SortKeys(_)
SortKeys(ks) ==
    IF ks = {} THEN <<>>
    ELSE LET least == CHOOSE k \in ks : \A o \in ks \ {k} : LexLess(k, o)
         IN  <<least>> \o SortKeys(ks \ {least})

\* The keys of d in the order of their first occurrence
RECURSIVE FirstSeenKeys(_)
FirstSeenKeys(d) ==
    IF d = <<>> THEN <<>>
    ELSE LET k == Head(d).ArticleKey
             NotK(r) == r.ArticleKey # k
         IN  <<k>> \o FirstSeenKeys(SelectSeq(Tail(d), NotK))

\* groupby(..., sort=False): the groups in order of first occurrence
GroupKeysUnsorted(d) == FirstSeenKeys(d)

\* df.groupby("ArticleKey", ...): sort=True by default, the groups come in
\* ascending key order
GroupKeys(d) == SortKeys({d[i].ArticleKey : i \in DOMAIN d})

\* the rows of one group, in table order
Group(d, k) == LET IsK(r) == r.ArticleKey = k IN SelectSeq(d, IsK)

Col(g, c) == [i \in 1..Len(g) |-> g[i].m[c]]

\* the first present value of a column, missing if none (the "first" reduction)
FirstAgg(vs) ==
    LET present == SelectSeq(vs, IsPresent)
    IN  IF present = <<>> THEN NaN ELSE Head(present)

\* the "sum" reduction given to .agg / .sum()
SumAgg(vs) == NanSum(vs)

\* lines 96-98: the Page-Views-weighted Exit Rate of one group
WeightedExitRate(g) ==
    LET w    == [i \in 1..Len(g) |-> ReplaceZero(g[i].m["Page Views"])]
        er_w == [i \in 1..Len(g) |-> QMul(g[i].m["Exit Rate"], w[i])]
    IN  IF NanSum(w).n > 0 THEN QDiv(NanSum(er_w), NanSum(w)) ELSE NaN

\* lines 90-100: the value of "Exit Rate" after the merge: the column of agg
\* (the plain mean), with only its missing entries filled from the weighted one
ExitRateOf(g) == FillNa(Mean(Col(g, "Exit Rate")), WeightedExitRate(g))

aggregate_traffic(d) ==
    LET keys == GroupKeys(d)
        Row(k) ==
            LET g == Group(d, k)
            IN  [ ArticleKey |-> k,
                  lang |-> lang_of(k),
                  m |-> [c \in Range(TrafficCols) |->
                           CASE c \in {"Entries", "Unique Visitors", "Page Views"} ->
                                    SumAgg(Col(g, c))
                             [] c = "Exit Rate" -> ExitRateOf(g)
                             [] OTHER -> Mean(Col(g, c))] ]
    IN  [i \in 1..Len(keys) |-> Row(keys[i])]

aggregate_channels(d) ==
    LET keys == GroupKeys(d)
        Row(k) ==
            LET g == Group(d, k)
            IN  [ ArticleKey |-> k,
                  lang |-> lang_of(k),
                  m |-> [c \in Range(ChannelCols) |-> SumAgg(Col(g, c))] ]
    IN  [i \in 1..Len(keys) |-> Row(keys[i])]

\* Aggregation of the parsed table (run_pipeline lines 203-204).  .agg and
\* [ch_cols] raise KeyError when the table lacks one of the named columns.
\* What aggregate_traffic does with a table of no rows depends on what
\* groupby.apply returns for it in the installed pandas: both outcomes are
\* allowed.
AggregateTraffic ==
    /\ ppc = "parsed"
    /\ kind = "traffic"
    /\ \/ /\ Range(TrafficCols) \subseteq Range(cols)
          /\ df # <<>>
          /\ agg' = aggregate_traffic(df)
          /\ ppc' = "aggregated"
       \/ /\ Range(TrafficCols) \subseteq Range(cols)
          /\ df = <<>>
          /\ agg' = <<>>
          /\ ppc' \in {"aggregated", "error"}
       \/ /\ ~(Range(TrafficCols) \subseteq Range(cols))
          /\ agg' = <<>>
          /\ ppc' = "error"
    /\ UNCHANGED <<lines, kind, cols, df, keyVars, appVars, clsVars, reqVars>>

AggregateChannels ==
    /\ ppc = "parsed"
    /\ kind = "channels"
    /\ \/ /\ Range(ChannelCols) \subseteq Range(cols)
          /\ agg' = aggregate_channels(df)
          /\ ppc' = "aggregated"
       \/ /\ ~(Range(ChannelCols) \subseteq Range(cols))
          /\ agg' = <<>>
          /\ ppc' = "error"
    /\ UNCHANGED <<lines, kind, cols, df, keyVars, appVars, clsVars, reqVars>>

---------------------------------------------------------------------------
(* Freeform-table parsers                                                  *)

Dots == <<".", ".", ".">>

\* ln.startswith(","): the line has a comma and nothing before the first one
LineStartsWithComma(ln) == Len(ln) >= 2 /\ ln[1] = <<>>

\* word in ln, for a word without a comma
LineContains(ln, w) == \E f \in DOMAIN ln : \E j \in DOMAIN ln[f] : ln[f][j] = w

\* not ln.strip()
LineIsBlank(ln) == Len(ln) = 1 /\ Strip(ln[1]) = <<>>

\* ln.strip().startswith("...")
LineStartsWithDots(ln) == StartsWith(LStripSet(ln[1], Whitespace), Dots)

\* the smallest element of a non-empty set of line numbers: next(...)
First(S) == CHOOSE i \in S : \A j \in S : i <= j

\* the look-ahead of the header search, range(idx+1, min(len(lines), idx+50))
HeaderWindow == 50

\* the line numbers (from 1) that the header search visits after marker line idx
HeaderRange(ls, idx) ==
    LET stop == IF Len(ls) < idx - 1 + HeaderWindow THEN Len(ls) ELSE idx - 1 + HeaderWindow
    IN  (idx + 1)..stop

\* the metric values that pd.to_numeric gives the cell words of the model;
\* every other cell ("", "x", "-", ...) is coerced to missing
NumberWords == {"0", "1", "3", "45", "100", "120", "130", "0.35"}

WordValue(w) ==
    CASE w = "0" -> Num(0)
      [] w = "1" -> Num(1)
      [] w = "3" -> Num(3)
      [] w = "45" -> Num(45)
      [] w = "100" -> Num(100)
      [] w = "120" -> Num(120)
      [] w = "130" -> Num(130)
      [] w = "0.35" -> Q(35, 100)

\* pd.to_numeric(cell, errors="coerce")
ToNumeric(cell) ==
    IF Len(cell) = 1 /\ cell[1] \in NumberWords THEN WordValue(cell[1]) ELSE NaN

\* h.strip() of a header field, as a column name (header fields of the model
\* hold one word, possibly between blanks)
ColName(h) == LET t == Strip(h) IN IF Len(t) = 1 THEN t[1] ELSE "?"

\* [h.strip() for h in lines[header_i].split(",")[1:]]
HeaderNames(ln) == [i \in 1..(Len(ln) - 1) |-> ColName(ln[i + 1])]

\* a row loop that passes over a line that begins with the delimiter
RECURSIVE ExtractRowsPastHeaders(_, _, _)
ExtractRowsPastHeaders(ls, start, n) ==
    IF start > Len(ls) THEN <<>>
    ELSE LET ln == ls[start]
         IN  IF LineIsBlank(ln) THEN <<>>
             ELSE IF Len(ln) < n \/ LineStartsWithComma(ln)
                  THEN IF LineStartsWithDots(ln) THEN <<>>
                       ELSE ExtractRowsPastHeaders(ls, start + 1, n)
                  ELSE <<SubSeq(ln, 1, n)>> \o ExtractRowsPastHeaders(ls, start + 1, n)

\* a row loop that ends at the first line with fewer than n fields
RECURSIVE ExtractRowsUntilShort(_, _, _)
ExtractRowsUntilShort(ls, start, n) ==
    IF start > Len(ls) THEN <<>>
    ELSE LET ln == ls[start]
         IN  IF LineIsBlank(ln) \/ LineStartsWithComma(ln) \/ Len(ln) < n THEN <<>>
             ELSE <<SubSeq(ln, 1, n)>> \o ExtractRowsUntilShort(ls, start + 1, n)

\* The row loop shared by both parsers: the lines of ls from number start on,
\* with n the number of columns (len(headers)).  Returns the accepted lines.
RECURSIVE ExtractRows(_, _, _)
ExtractRows(ls, start, n) ==
    IF start > Len(ls) THEN <<>>
    ELSE LET ln == ls[start]
         IN  IF LineIsBlank(ln) THEN <<>>
             ELSE IF LineStartsWithComma(ln) THEN <<>>
             ELSE IF Len(ln) < n
                  THEN IF LineStartsWithDots(ln) THEN <<>>
                       ELSE ExtractRows(ls, start + 1, n)
                  ELSE <<SubSeq(ln, 1, n)>> \o ExtractRows(ls, start + 1, n)

\* a frame that loses the rows with a cell that is not a number
BuildFrameDropNa(rows, names) ==
    LET Numeric(r) ==
            /\ r[1] # <<"P", "a", "g", "e">>
            /\ \A i \in 1..Len(names) : ToNumeric(r[1 + i]) # NaN
        kept == SelectSeq(rows, Numeric)
    IN  [i \in 1..Len(kept) |->
            [ Page |-> kept[i][1],
              ArticleKey |-> normalize_key(kept[i][1]),
              lang |-> lang_of(normalize_key(kept[i][1])),
              m |-> [c \in Range(names) |->
                       ToNumeric(kept[i][1 + CHOOSE k \in 1..Len(names) : names[k] = c])] ]]

\* DataFrame(rows, columns), the totals row dropped, the metric columns
\* coerced, ArticleKey and lang added
BuildFrame(rows, names) ==
    LET NotTotals(r) == r[1] # <<"P", "a", "g", "e">>
        kept == SelectSeq(rows, NotTotals)
        Row(r) ==
            [ Page |-> r[1],
              ArticleKey |-> normalize_key(r[1]),
              lang |-> lang_of(normalize_key(r[1])),
              m |-> [c \in Range(names) |->
                       ToNumeric(r[1 + CHOOSE i \in 1..Len(names) : names[i] = c])] ]
    IN  [i \in 1..Len(kept) |-> Row(kept[i])]

\* an empty table returned in place of the ValueError
EmptyTable == [ok |-> TRUE, cols |-> <<>>, rows |-> <<>>]

ParseError == [ok |-> FALSE, cols |-> <<>>, rows |-> <<>>]

\* inbiz_pipeline.py parse_traffic; ok = FALSE stands for the ValueError
parse_traffic(ls) ==
    LET marked == {i \in 1..Len(ls) : LineContains(ls[i], "Freeform table")}
    IN  IF marked = {} THEN ParseError
        ELSE LET idx == First(marked)
                 heads == {i \in HeaderRange(ls, idx) :
                              /\ LineStartsWithComma(ls[i])
                              /\ LineContains(ls[i], "Entries")
                              /\ LineContains(ls[i], "Unique Visitors")}
             IN  IF heads = {} THEN ParseError
                 ELSE LET header_i == First(heads)
                          names == HeaderNames(ls[header_i])
                      IN  [ok |-> TRUE, cols |-> names,
                           rows |-> BuildFrame(ExtractRows(ls, header_i + 1, 1 + Len(names)),
                                               names)]

\* inbiz_pipeline.py parse_channels; ok = FALSE stands for the ValueError
parse_channels(ls) ==
    LET marked == {i \in 1..Len(ls) : LineContains(ls[i], "Freeform table")}
    IN  IF marked = {} THEN ParseError
        ELSE LET idx == First(marked)
                 heads == {i \in HeaderRange(ls, idx) :
                              /\ LineStartsWithComma(ls[i])
                              /\ ~LineContains(ls[i], "Page Views")
                              /\ Len(ls[i]) - 1 >= 4}
             IN  IF heads = {} THEN ParseError
                 ELSE LET header1_i == First(heads)
                          channels == HeaderNames(ls[header1_i])
                      IN  [ok |-> TRUE, cols |-> channels,
                           rows |-> BuildFrame(
                                        ExtractRows(ls, header1_i + 2, 1 + Len(channels)),
                                        channels)]

\* run_pipeline lines 201-202: the parse step
ParseTraffic ==
    /\ ppc = "file"
    /\ kind = "traffic"
    /\ LET r == parse_traffic(lines)
       IN  /\ ppc' = IF r.ok THEN "parsed" ELSE "error"
           /\ cols' = r.cols
           /\ df' = r.rows
    /\ UNCHANGED <<lines, kind, agg, keyVars, appVars, clsVars, reqVars>>

ParseChannels ==
    /\ ppc = "file"
    /\ kind = "channels"
    /\ LET r == parse_channels(lines)
       IN  /\ ppc' = IF r.ok THEN "parsed" ELSE "error"
           /\ cols' = r.cols
           /\ df' = r.rows
    /\ UNCHANGED <<lines, kind, agg, keyVars, appVars, clsVars, reqVars>>

---------------------------------------------------------------------------
(* Aggregation specification: the aggregators applied to bounded tables    *)

MaxRows == 2

AggKeys == { <<"/", "i", "t", "/", "b">>, <<"/", "e", "n", "/", "a">> }

MakeRow(k, cs, vals) ==
    [ Page |-> k, ArticleKey |-> k, lang |-> lang_of(k),
      m |-> [c \in Range(cs) |-> vals[CHOOSE i \in 1..Len(cs) : cs[i] = c]] ]

TrafficRowPool ==
    { MakeRow(k, TrafficCols, <<en, er, Num(45), Num(100), pv>>) :
        k \in AggKeys,
        en \in {NaN, Num(2)},
        er \in {NaN, Q(1, 5), Q(4, 5)},
        pv \in {NaN, Num(0), Num(1), Num(3)} }

ChannelRowPool ==
    { MakeRow(k, ChannelCols, <<os, di, Num(1), Num(1), Num(1)>>) :
        k \in AggKeys,
        os \in {NaN, Num(1), Num(2)},
        di \in {Num(0), Num(3)} }

TablesOf(pool) == UNION { [1..n -> pool] : n \in 0..MaxRows }

InitAgg ==
    /\ lines = <<>>
    /\ \/ kind = "traffic" /\ cols = TrafficCols /\ df \in TablesOf(TrafficRowPool)
       \/ kind = "channels" /\ cols = ChannelCols /\ df \in TablesOf(ChannelRowPool)
    /\ agg = <<>>
    /\ ppc = "parsed"
    /\ IdleKey
    /\ IdleApp
    /\ IdleCls
    /\ IdleReq

NextAgg == AggregateTraffic \/ AggregateChannels

SpecAgg == InitAgg /\ [][NextAgg]_vars

\* the rows of group g whose Page Views is present and non-zero
Weighted(g) ==
    LET HasWeight(r) == ~r.m["Page Views"].nan /\ r.m["Page Views"].n # 0
    IN  SelectSeq(g, HasWeight)

\* sum(Exit Rate * Page Views) / sum(Page Views) over the rows gw
RECURSIVE SumProducts(_)
SumProducts(gw) ==
    IF gw = <<>> THEN Num(0)
    ELSE QAdd(QMul(Head(gw).m["Exit Rate"], Head(gw).m["Page Views"]), SumProducts(Tail(gw)))

RECURSIVE SumWeights(_)
SumWeights(gw) ==
    IF gw = <<>> THEN Num(0) ELSE QAdd(Head(gw).m["Page Views"], SumWeights(Tail(gw)))

\* C1: after aggregate_traffic, the Exit Rate of every group is the
\* Page-Views-weighted mean of the group's Exit Rate values, taken over the
\* rows whose Page Views is present and non-zero (stated for the groups in
\* which those rows all carry an Exit Rate and the total weight is positive).
C1_ExitRateIsWeightedMean ==
    (ppc = "aggregated" /\ kind = "traffic") =>
        \A i \in DOMAIN agg :
            LET gw == Weighted(Group(df, agg[i].ArticleKey))
            IN  ( /\ gw # <<>>
                  /\ \A j \in DOMAIN gw : ~gw[j].m["Exit Rate"].nan
                  /\ SumWeights(gw).n > 0 )
                => agg[i].m["Exit Rate"] = QDiv(SumProducts(gw), SumWeights(gw))

\* C2: a group in which every row has Page Views zero or missing gets a
\* missing Exit Rate, and aggregation raises nothing.
C2_ZeroWeightGivesMissing ==
    /\ (kind = "traffic" /\ df # <<>>) => ppc # "error"
    /\ (ppc = "aggregated" /\ kind = "traffic") =>
          \A i \in DOMAIN agg :
              Weighted(Group(df, agg[i].ArticleKey)) = <<>> => agg[i].m["Exit Rate"] = NaN

KeysOf(t) == [i \in 1..Len(t) |-> t[i].ArticleKey]

\* C9 (as stated): the aggregated rows are in the order in which each
\* ArticleKey is first seen in the input.
C9_FirstSeenOrder == ppc = "aggregated" => KeysOf(agg) = FirstSeenKeys(df)

\* C9 (amended): the aggregated rows hold each ArticleKey of the input once,
\* in ascending string order of ArticleKey, whatever the input order.
C9_AscendingKeyOrder ==
    ppc = "aggregated" =>
        /\ Range(KeysOf(agg)) = Range(KeysOf(df))
        /\ \A i \in 1..(Len(agg) - 1) : LexLess(agg[i].ArticleKey, agg[i + 1].ArticleKey)

\* C9 witness: an aggregated table of two keys whose first-seen order is not
\* the ascending order.
C9_Witness ==
    /\ ppc = "aggregated"
    /\ Len(agg) >= 2
    /\ FirstSeenKeys(df) # KeysOf(agg)

RowOrders(n) == {f \in [1..n -> 1..n] : \A i, j \in 1..n : f[i] = f[j] => i = j}

SummedCols == IF kind = "traffic" THEN {"Entries", "Unique Visitors", "Page Views"}
              ELSE Range(ChannelCols)

\* The totals of a table: (ArticleKey, column, total) for every summed column
Totals(t) == {<<t[i].ArticleKey, c, t[i].m[c]>> : i \in DOMAIN t, c \in SummedCols}

Aggregated(d) == IF kind = "traffic" THEN aggregate_traffic(d) ELSE aggregate_channels(d)

---------------------------------------------------------------------------
(* Pipeline specification: run_pipeline on bounded export files            *)

MaxData == 3

MarkerLine == << <<"#", " ", "Freeform table">> >>

TrafficHeader ==
    << <<>>, <<"Entries">>, <<"Exit Rate">>, <<"Time Spent per Visit (seconds)">>,
       <<"Unique Visitors">>, <<"Page Views">> >>

\* a traffic header without the rate columns
ShortTrafficHeader == << <<>>, <<"Entries">>, <<"Unique Visitors">>, <<"Page Views">> >>

ChannelHeader ==
    << <<>>, <<"Organic Search">>, <<"Direct">>, <<"Internal traffic">>,
       <<"Referring Domains">>, <<"Social Networks">> >>

\* the secondary label row below the channel names
ChannelLabels ==
    << <<>>, <<"Page Views">>, <<"Page Views">>, <<"Page Views">>, <<"Page Views">>,
       <<"Page Views">> >>

ScenarioKey ==
    <<"/", "i", "t", "/", "a", "r", "t", "i", "c", "o", "l", "o", "-", "t", "e", "s", "t">>

\* '/it/articolo-test,120,0.35,45,100,130'
ScenarioLine == <<ScenarioKey, <<"120">>, <<"0.35">>, <<"45">>, <<"100">>, <<"130">>>>

DataLinePool ==
    { ScenarioLine,
      \* '/en/a/,1,x,45,100,0'
      << <<"/", "e", "n", "/", "a", "/">>, <<"1">>, <<"x">>, <<"45">>, <<"100">>, <<"0">> >>,
      \* '/it/,1,0.35,45,100,3'
      << <<"/", "i", "t", "/">>, <<"1">>, <<"0.35">>, <<"45">>, <<"100">>, <<"3">> >>,
      \* ' /it/a,3,1,45,100,1'
      << <<" ", "/", "i", "t", "/", "a">>, <<"3">>, <<"1">>, <<"45">>, <<"100">>, <<"1">> >>,
      \* '/it/articolo-test,1,1,1,1,3,1' (one field more than the header)
      << ScenarioKey, <<"1">>, <<"1">>, <<"1">>, <<"1">>, <<"3">>, <<"1">> >>,
      \* '...'
      << Dots >>,
      \* '...,1,0.35,45,100,3'
      << Dots, <<"1">>, <<"0.35">>, <<"45">>, <<"100">>, <<"3">> >>,
      \* '/it/b,1' (short)
      << <<"/", "i", "t", "/", "b">>, <<"1">> >>,
      \* '' (blank)
      << <<>> >>,
      \* ',x' (begins with the delimiter)
      << <<>>, <<"x">> >>,
      \* 'Page,1,1,1,1,1' (totals row)
      << <<"P", "a", "g", "e">>, <<"1">>, <<"1">>, <<"1">>, <<"1">>, <<"1">> >> }

DataBlocks == UNION { [1..n -> DataLinePool] : n \in 0..MaxData }

TrafficFiles ==
    { <<MarkerLine, h>> \o d : h \in {TrafficHeader, ShortTrafficHeader}, d \in DataBlocks }

ChannelFiles ==
    { <<MarkerLine, ChannelHeader, ChannelLabels>> \o d : d \in DataBlocks }

InitPipe ==
    /\ \/ kind = "traffic" /\ lines \in TrafficFiles
       \/ kind = "channels" /\ lines \in ChannelFiles
    /\ cols = <<>>
    /\ df = <<>>
    /\ agg = <<>>
    /\ ppc = "file"
    /\ IdleKey
    /\ IdleApp
    /\ IdleCls
    /\ IdleReq

NextPipe == ParseTraffic \/ ParseChannels \/ AggregateTraffic \/ AggregateChannels

SpecPipe == InitPipe /\ [][NextPipe]_vars

ScenarioFile == <<MarkerLine, TrafficHeader, ScenarioLine>>

\* C5: the export with the header ',Entries,Exit Rate,Time Spent per Visit
\* (seconds),Unique Visitors,Page Views' and the one data line
\* '/it/articolo-test,120,0.35,45,100,130' yields exactly one record, with
\* article key '/articolo-test', locale IT, Entries 120 and Page Views 130.
C5_EndToEndScenario ==
    (kind = "traffic" /\ lines = ScenarioFile) =>
        /\ ppc # "error"
        /\ ppc = "aggregated" =>
              /\ Len(agg) = 1
              /\ agg[1].ArticleKey =
                    <<"/", "a", "r", "t", "i", "c", "o", "l", "o", "-", "t", "e", "s", "t">>
              /\ agg[1].lang = "IT"
              /\ agg[1].m["Entries"] = Num(120)
              /\ agg[1].m["Page Views"] = Num(130)

\* the first data line of the files of the model (marker, header[, labels], data)
DataStart == IF kind = "traffic" THEN 3 ELSE 4

Parsed(ls) == IF kind = "traffic" THEN parse_traffic(ls) ELSE parse_channels(ls)

\* C6: a data line that starts with '...' ends row extraction whatever its
\* field count: nothing is raised, and the rows are those of the file cut
\* before the first such line (neither it nor a later line gives a row).
C6_TruncationMarkerStops ==
    ppc = "parsed" =>
        LET marks == {i \in DataStart..Len(lines) : StartsWith(lines[i][1], Dots)}
        IN  marks # {} =>
                /\ \A i \in DOMAIN df : ~StartsWith(df[i].Page, Dots)
                /\ df = Parsed(SubSeq(lines, 1, First(marks) - 1)).rows

\* C8: the lang of every parsed row is that of the raw Page identifier: IT
\* iff it begins with '/it/', EN iff it begins with '/en/', else OTHER.
C8_LangFromRawIdentifier ==
    ppc = "parsed" => \A i \in DOMAIN df : df[i].lang = lang_of(df[i].Page)

---------------------------------------------------------------------------
(* The web application: stored uploads and the process_all route           *)

\* text.splitlines()[:80]
HeadLines == 80

Head80(content) ==
    SubSeq(content, 1, IF Len(content) < HeadLines THEN Len(content) ELSE HeadLines)

InHead(content, w) == \E i \in DOMAIN Head80(content) : LineContains(content[i], w)

\* app.py _is_channels_freeform_csv
is_channels_freeform_csv(content) ==
    \A w \in {"Freeform table", "Organic Search", "Direct", "Internal traffic",
              "Referring Domains", "Social Networks"} : InHead(content, w)

\* app.py _is_traffic_freeform_csv
is_traffic_freeform_csv(content) ==
    \A w \in {"Freeform table", "Entries", "Unique Visitors", "Page Views"} :
        InHead(content, w)

\* StoredFile.__init__ followed by the file_type assignment of process /
\* process_batch ("none" stands for None)
StoredFile(content, xlsx) ==
    [ original |-> content,
      processed_xlsx |-> xlsx,
      file_type |-> "none",
      split_done |-> FALSE,
      normalized |-> FALSE ]

DetectedType(content) ==
    IF is_channels_freeform_csv(content) THEN "channels"
    ELSE IF is_traffic_freeform_csv(content) THEN "traffic"
    ELSE "none"

\* the content of a workbook written by the application (not a text export)
XlsxContent == << << <<"xlsx">> >> >>

Totale == <<"TOTALE">>

\* a split that reads the locale off the key after its prefix is stripped
SplitAfterStrip(rows, lang, cs) ==
    LET IsLang(r) == lang_of(normalize_articlekey_for_split(r.ArticleKey)) = lang
        sub == SelectSeq(rows, IsLang)
    IN  [i \in 1..Len(sub) |->
            [ ArticleKey |->
                  extract_name_from_key(
                      normalize_articlekey_for_split(sub[i].ArticleKey), TRUE),
              m |-> [c \in Range(cs) |-> sub[i].m[c]] ]]

\* df[df["lang"] == lang][["ArticleKey"] + cols] with ArticleKey normalised
\* and reduced to its display name (process_all lines 450-456)
SplitNormalized(rows, lang, cs) ==
    LET IsLang(r) == r.lang = lang
        sub == SelectSeq(rows, IsLang)
    IN  [i \in 1..Len(sub) |->
            [ ArticleKey |->
                  extract_name_from_key(
                      normalize_articlekey_for_split(sub[i].ArticleKey), TRUE),
              m |-> [c \in Range(cs) |-> sub[i].m[c]] ]]

\* app.py _add_sum_row_to_dataframe
add_sum_row_to_dataframe(t, cs) ==
    IF t = <<>> THEN t
    ELSE Append(t, [ArticleKey |-> Totale, m |-> [c \in Range(cs) |-> NanSum(Col(t, c))]])

\* What one token adds to the results (process_all lines 430-468): nothing
\* when the token is unknown, when read_csv fails (readable = FALSE), when
\* the file has no type (KeyError on original_counts), when the parser
\* raises, or when the parsed table lacks one of the columns.
Contribution(store, token, readable) ==
    IF token \notin DOMAIN store \/ ~readable \/ store[token].file_type = "none"
    THEN NoResults
    ELSE LET st == store[token]
             r  == IF st.file_type = "channels" THEN parse_channels(st.original)
                   ELSE parse_traffic(st.original)
             cs == IF st.file_type = "channels" THEN ChannelCols ELSE TrafficCols
         IN  IF ~r.ok \/ ~(Range(cs) \subseteq Range(r.cols)) THEN NoResults
             ELSE LET it == SplitNormalized(r.rows, "IT", cs)
                      en == SplitNormalized(r.rows, "EN", cs)
                  IN  IF st.file_type = "channels"
                      THEN [NoResults EXCEPT !.channels_it = it, !.channels_en = en]
                      ELSE [NoResults EXCEPT !.traffic_it = it, !.traffic_en = en]

\* results[key] after the loop over the tokens: the frames appended in order
RECURSIVE Collected(_, _, _)
Collected(store, tokens, readable) ==
    IF tokens = <<>> THEN NoResults
    ELSE LET c    == Contribution(store, Head(tokens), Head(readable))
             rest == Collected(store, Tail(tokens), Tail(readable))
         IN  [k \in DOMAIN NoResults |-> c[k] \o rest[k]]

\* final_results (process_all lines 470-484): pd.concat and the total row
Finalised(results) ==
    [k \in DOMAIN NoResults |->
        add_sum_row_to_dataframe(results[k],
            IF k \in {"channels_it", "channels_en"} THEN ChannelCols ELSE TrafficCols)]

\* the workbooks process_all stores under new tokens (lines 491-544):
\* Channels, Traffic and Combined
NewWorkbooks(fr) ==
    LET ch == fr.channels_it # <<>> \/ fr.channels_en # <<>>
        tr == fr.traffic_it # <<>> \/ fr.traffic_en # <<>>
        One(b) == IF b THEN <<StoredFile(XlsxContent, TRUE)>> ELSE <<>>
    IN  One(ch) \o One(tr) \o One(ch /\ tr)

MaxFiles == 2
MaxTokens == 2
MaxRuns == 1

AppFiles ==
    { \* a traffic export with the same page on two lines
      <<MarkerLine, TrafficHeader, ScenarioLine,
        <<ScenarioKey, <<"1">>, <<"1">>, <<"1">>, <<"1">>, <<"3">>, <<"1">>>> >>,
      \* a traffic export with one IT and one EN page
      <<MarkerLine, TrafficHeader,
        << <<"/", "e", "n", "/", "a", "/">>, <<"1">>, <<"x">>, <<"45">>, <<"100">>, <<"0">> >>,
        << <<"/", "i", "t", "/", "b">>, <<"1">>, <<"0.35">>, <<"45">>, <<"100">>, <<"3">> >> >>,
      \* a channel export
      <<MarkerLine, ChannelHeader, ChannelLabels, ScenarioLine,
        << <<"/", "e", "n", "/", "a", "/">>, <<"1">>, <<"x">>, <<"45">>, <<"100">>, <<"0">> >> >>,
      \* a file without the marker
      << << <<"#", " ", "x">> >> >>,
      \* the traffic words, but no header line that starts with the delimiter
      <<MarkerLine, << <<"Entries", " ", "Unique Visitors", " ", "Page Views">> >> >> }

\* the process route (lines 317-362) for an upload that pandas can read: the
\* upload is stored under a new token with the detected type
Upload ==
    /\ Cardinality({i \in DOMAIN PROCESSED_FILES :
                       PROCESSED_FILES[i].original # XlsxContent}) < MaxFiles
    /\ \E content \in AppFiles :
          PROCESSED_FILES' =
              Append(PROCESSED_FILES,
                     [StoredFile(content, FALSE) EXCEPT !.file_type = DetectedType(content)])
    /\ UNCHANGED <<final_results, runs, keyVars, pipeVars, clsVars, reqVars>>

\* the token lists of a request: the form names each token once; token 0 is
\* a token that is not stored
TokenLists ==
    { ts \in UNION { [1..n -> 0..Len(PROCESSED_FILES)] : n \in 1..MaxTokens } :
        \A i, j \in DOMAIN ts : ts[i] = ts[j] => i = j }

\* the process_all route (lines 411-549)
ProcessAll ==
    /\ runs < MaxRuns
    /\ \E tokens \in TokenLists :
       \E readable \in [1..Len(tokens) -> BOOLEAN] :
          LET fr == Finalised(Collected(PROCESSED_FILES, tokens, readable))
          IN  /\ final_results' = fr
              /\ PROCESSED_FILES' = PROCESSED_FILES \o NewWorkbooks(fr)
    /\ runs' = runs + 1
    /\ UNCHANGED <<keyVars, pipeVars, clsVars, reqVars>>

InitApp ==
    /\ PROCESSED_FILES = <<>>
    /\ final_results = NoResults
    /\ runs = 0
    /\ IdleKey
    /\ IdlePipe
    /\ IdleCls
    /\ IdleReq

NextApp == Upload \/ ProcessAll

SpecApp == InitApp /\ [][NextApp]_vars

\* the data rows of a table: all but the synthetic total row
DataRows(t) == LET NotTotal(r) == r.ArticleKey # Totale IN SelectSeq(t, NotTotal)

\* C7: in each of the four tables process_all hands to the sink, every
\* article key appears in at most one data row.
C7_OneRowPerKey ==
    \A k \in DOMAIN final_results :
        LET t == DataRows(final_results[k])
        IN  \A i, j \in DOMAIN t : t[i].ArticleKey = t[j].ArticleKey => i = j

---------------------------------------------------------------------------
(* Aggregation as a fold over two parts of the input                       *)

\* the rows lo..hi of a table
Rows(d, lo, hi) == [i \in 1..(hi - lo + 1) |-> d[lo + i - 1]]

\* an aggregated table fed back as an input table: the aggregator only reads
\* ArticleKey and the metric columns
AsInput(t) ==
    [i \in 1..Len(t) |->
        [Page |-> t[i].ArticleKey, ArticleKey |-> t[i].ArticleKey,
         lang |-> t[i].lang, m |-> t[i].m]]

\* aggregate_traffic(aggregate_traffic(A) ++ aggregate_traffic(B))
FoldTraffic(a, b) ==
    aggregate_traffic(AsInput(aggregate_traffic(a)) \o AsInput(aggregate_traffic(b)))

\* (ArticleKey, metric, value) for every row and every traffic metric
MetricValues(t) == {<<t[i].ArticleKey, c, t[i].m[c]>> : i \in DOMAIN t, c \in Range(TrafficCols)}

\* C11: for every split of the input table into two non-empty parts A and B,
\* aggregating the two aggregated parts gives, for every ArticleKey and every
\* traffic metric, the value that aggregating A ++ B gives.
C11_ParallelFold ==
    (ppc = "aggregated" /\ kind = "traffic") =>
        \A n \in 1..(Len(df) - 1) :
            MetricValues(FoldTraffic(Rows(df, 1, n), Rows(df, n + 1, Len(df))))
                = MetricValues(agg)

---------------------------------------------------------------------------
(* The fuzzy classifier of src/flexible_parser.py                          *)

\* the characters of a symbol: the spelling of a whole-word symbol, the
\* character itself otherwise
WordChars(w) ==
    CASE w = "Entries" -> <<"E", "n", "t", "r", "i", "e", "s">>
      [] w = "Exit Rate" -> <<"E", "x", "i", "t", " ", "R", "a", "t", "e">>
      [] w = "Time Spent per Visit (seconds)" ->
            <<"T", "i", "m", "e", " ", "S", "p", "e", "n", "t", " ", "p", "e", "r", " ",
              "V", "i", "s", "i", "t", " ", "(", "s", "e", "c", "o", "n", "d", "s", ")">>
      [] w = "Unique Visitors" ->
            <<"U", "n", "i", "q", "u", "e", " ", "V", "i", "s", "i", "t", "o", "r", "s">>
      [] w = "Page Views" -> <<"P", "a", "g", "e", " ", "V", "i", "e", "w", "s">>
      [] w = "Organic Search" ->
            <<"O", "r", "g", "a", "n", "i", "c", " ", "S", "e", "a", "r", "c", "h">>
      [] w = "Direct" -> <<"D", "i", "r", "e", "c", "t">>
      [] w = "Internal traffic" ->
            <<"I", "n", "t", "e", "r", "n", "a", "l", " ", "t", "r", "a", "f", "f", "i", "c">>
      [] w = "Referring Domains" ->
            <<"R", "e", "f", "e", "r", "r", "i", "n", "g", " ", "D", "o", "m", "a", "i", "n", "s">>
      [] w = "Social Networks" ->
            <<"S", "o", "c", "i", "a", "l", " ", "N", "e", "t", "w", "o", "r", "k", "s">>
      [] w = "Freeform table" ->
            <<"F", "r", "e", "e", "f", "o", "r", "m", " ", "t", "a", "b", "l", "e">>
      [] OTHER -> <<w>>

\* the text of a field, character by character
RECURSIVE Text(_)
Text(f) == IF f = <<>> THEN <<>> ELSE WordChars(Head(f)) \o Text(Tail(f))

\* sub in s
Contains(s, sub) ==
    \E i \in 0..(Len(s) - Len(sub)) : SubSeq(s, i + 1, i + Len(sub)) = sub

traffic_keywords ==
    { <<"e", "n", "t", "r", "i", "e", "s">>, <<"v", "i", "s", "i", "t", "o", "r", "s">>,
      <<"v", "i", "e", "w", "s">>, <<"e", "x", "i", "t">>, <<"t", "i", "m", "e">>,
      <<"r", "a", "t", "e">> }

channels_keywords ==
    { <<"s", "e", "a", "r", "c", "h">>, <<"d", "i", "r", "e", "c", "t">>,
      <<"i", "n", "t", "e", "r", "n", "a", "l">>,
      <<"r", "e", "f", "e", "r", "r", "i", "n", "g">>, <<"s", "o", "c", "i", "a", "l">>,
      <<"p", "a", "i", "d">> }

\* lines 81-94: the number of columns whose lowered name holds a keyword of
\* the family (one point per column)
Score(columns, keywords) ==
    Cardinality({i \in DOMAIN columns :
                    \E k \in keywords : Contains(Lower(Text(columns[i])), k)})

\* float(value.strip()) succeeds, for the cells of the model: a number word
\* with an optional sign, or a spelling of nan
FloatOk(cell) ==
    LET t == Strip(cell)
        u == IF t # <<>> /\ t[1] \in {"-", "+"} THEN Tail(t) ELSE t
    IN  \/ Len(u) = 1 /\ u[1] \in NumberWords
        \/ Lower(Text(u)) = <<"n", "a", "n">>

\* lines 98-110: the first sample line holds mostly numbers after its first
\* field, numeric_count > len(sample_data) * 0.7
MostlyNumeric(data_lines) ==
    /\ data_lines # <<>>
    /\ LET sample_data == Tail(data_lines[1])
           numeric_count == Cardinality({i \in DOMAIN sample_data : FloatOk(sample_data[i])})
       IN  10 * numeric_count > 7 * Len(sample_data)

\* min(0.9, 0.5 + score * 0.1), in tenths, without the cap
ConfidenceUncapped(score) == 5 + score

\* 0.5 + score * 0.1 without the base
ConfidenceNoBase(score) == IF score < 9 THEN score ELSE 9

\* min(0.9, 0.5 + score * 0.1), in tenths
Confidence(score) == IF 5 + score < 9 THEN 5 + score ELSE 9

\* flexible_parser.py analyze_file_type; confidence in tenths, reason the
\* leading words of the reason text
analyze_file_type(columns, data_lines) ==
    LET traffic_score == Score(columns, traffic_keywords)
        channels_score == Score(columns, channels_keywords)
    IN  IF MostlyNumeric(data_lines) /\ traffic_score > channels_score
        THEN [type |-> "traffic", confidence |-> Confidence(traffic_score),
              reason |-> "Detected"]
        ELSE IF MostlyNumeric(data_lines) /\ channels_score > 0
        THEN [type |-> "channels", confidence |-> Confidence(channels_score),
              reason |-> "Detected"]
        ELSE IF traffic_score > 0 \/ channels_score > 0
        THEN IF traffic_score >= channels_score
             THEN [type |-> "traffic", confidence |-> 6, reason |-> "Uncertain"]
             ELSE [type |-> "channels", confidence |-> 6, reason |-> "Uncertain"]
        ELSE [type |-> "unknown", confidence |-> 0, reason |-> "Cannot determine"]

\* lines[i].strip(): blanks leave the front of the first field and the back
\* of the last one
StripLine(ln) ==
    [i \in 1..Len(ln) |->
        IF i = 1 /\ i = Len(ln) THEN Strip(ln[i])
        ELSE IF i = 1 THEN LStripSet(ln[i], Whitespace)
        ELSE IF i = Len(ln) THEN RStripSet(ln[i], Whitespace)
        ELSE ln[i]]

\* the look-ahead of the classifier, range(freeform_start + 1,
\* min(freeform_start + 10, len(lines)))
SampleWindow == 10

\* the number of sample lines after which the scan stops
SampleRows == 3

\* the last line number (from 1) that the scan after marker line idx visits
SampleStop(ls, idx) ==
    IF Len(ls) < idx - 1 + SampleWindow THEN Len(ls) ELSE idx - 1 + SampleWindow

\* lines 37-46: the scan of the lines i..stop, collecting the header lines
\* and the sample lines seen so far
RECURSIVE ScanLines(_, _, _, _, _)
ScanLines(ls, i, stop, header_lines, data_lines) ==
    IF i > stop THEN [header_lines |-> header_lines, data_lines |-> data_lines]
    ELSE LET line == StripLine(ls[i])
         IN  IF Len(line) = 1 /\ line[1] = <<>>
             THEN ScanLines(ls, i + 1, stop, header_lines, data_lines)
             ELSE IF LineStartsWithComma(line)
             THEN ScanLines(ls, i + 1, stop, Append(header_lines, line), data_lines)
             ELSE IF ~StartsWith(Text(line[1]), <<"#">>) /\ Len(line) >= 2
             THEN IF Len(data_lines) + 1 >= SampleRows
                  THEN [header_lines |-> header_lines,
                        data_lines |-> Append(data_lines, line)]
                  ELSE ScanLines(ls, i + 1, stop, header_lines, Append(data_lines, line))
             ELSE ScanLines(ls, i + 1, stop, header_lines, data_lines)

\* a guess returned in place of the 'unknown' result
GuessedAnalysis(reason) ==
    [type |-> "traffic", confidence |-> 6, columns |-> <<>>, reason |-> reason]

\* lines 31 and 49: the 'unknown' result of a file without marker or header
UnknownAnalysis(reason) ==
    [type |-> "unknown", confidence |-> 0, columns |-> <<>>, reason |-> reason]

\* flexible_parser.py analyze_csv_structure
analyze_csv_structure(ls) ==
    LET marked == {i \in 1..Len(ls) : LineContains(ls[i], "Freeform table")}
    IN  IF marked = {} THEN UnknownAnalysis("No Freeform table found")
        ELSE LET freeform_start == First(marked)
                 seen == ScanLines(ls, freeform_start + 1, SampleStop(ls, freeform_start),
                                   <<>>, <<>>)
             IN  IF seen.header_lines = <<>> THEN UnknownAnalysis("No header found")
                 ELSE LET first_header == seen.header_lines[1]
                          columns == [i \in 1..(Len(first_header) - 1) |->
                                         Strip(first_header[i + 1])]
                          result == analyze_file_type(columns, seen.data_lines)
                      IN  [type |-> result.type, confidence |-> result.confidence,
                           columns |-> columns, reason |-> result.reason]

AnalyzeCsvStructure ==
    /\ cpc = "file"
    /\ analysis' = analyze_csv_structure(lines)
    /\ cpc' = "done"
    /\ UNCHANGED <<keyVars, pipeVars, appVars, reqVars>>

---------------------------------------------------------------------------
(* Classification specification: the parsers and the classifier on the     *)
(* same bounded files                                                      *)

MaxFill == 9
MaxSample == 2

\* '# x'
CommentLine == << <<"#", " ", "x">> >>

BlankLine == << <<>> >>

\* a header with names of both families
MixedHeader ==
    << <<>>, <<"Entries">>, <<"Unique Visitors">>, <<"Organic Search">>, <<"Direct">>,
       <<"Social Networks">> >>

\* ',x,x,x,x'
PlainHeader == << <<>>, <<"x">>, <<"x">>, <<"x">>, <<"x">> >>

\* ',Entries'
OneHeader == << <<>>, <<"Entries">> >>

\* ' ,Entries,Unique Visitors,Page Views' (a blank before the delimiter)
IndentedHeader == << <<" ">>, <<"Entries">>, <<"Unique Visitors">>, <<"Page Views">> >>

\* ',Entries,Direct,x': four fields, one name of each family
TieHeader == << <<>>, <<"Entries">>, <<"Direct">>, <<"x">> >>

HeaderPool ==
    { TrafficHeader, ShortTrafficHeader, ChannelHeader, MixedHeader, PlainHeader,
      OneHeader, IndentedHeader, TieHeader }

\* '/en/a,x,x,x,x,x'
TextLine == << <<"/", "e", "n", "/", "a">>, <<"x">>, <<"x">>, <<"x">>, <<"x">>, <<"x">> >>

SamplePool == { ScenarioLine, TextLine }

Repeat(ln, n) == [i \in 1..n |-> ln]

\* the numbers of lines between marker and header that put the header on the
\* last line of the parsers' look-ahead and on the first line after it
LongFills == {HeaderWindow - 2, HeaderWindow - 1}

\* the numbers of lines between the marker and the header that lie at the
\* ends of the classifier's window
ShortFills == {0, 1, MaxFill - 1, MaxFill}

ClassifyFiles ==
    { marker \o fill \o header \o labels \o data :
        marker \in { <<>>, <<MarkerLine>> },
        fill \in { Repeat(ln, n) : ln \in {CommentLine, BlankLine}, n \in ShortFills }
                 \cup { Repeat(CommentLine, n) : n \in LongFills },
        header \in { <<>> } \cup { <<h>> : h \in HeaderPool },
        labels \in { <<>>, <<ChannelLabels>> },
        data \in UNION { [1..n -> SamplePool] : n \in 0..MaxSample } }

InitClassify ==
    /\ lines \in ClassifyFiles
    /\ kind \in {"traffic", "channels"}
    /\ cols = <<>>
    /\ df = <<>>
    /\ agg = <<>>
    /\ ppc = "file"
    /\ analysis = NoAnalysis
    /\ cpc = "file"
    /\ IdleKey
    /\ IdleApp
    /\ IdleReq

NextClassify == ParseTraffic \/ ParseChannels \/ AnalyzeCsvStructure

SpecClassify == InitClassify /\ [][NextClassify]_vars

\* C12: a file in which parse_traffic finds the marker and its header is
\* classified 'traffic' with confidence at least 0.5 by analyze_csv_structure.
C12_TrafficShapedIsTraffic ==
    (kind = "traffic" /\ ppc = "parsed" /\ cpc = "done") =>
        (analysis.type = "traffic" /\ analysis.confidence >= 5)

\* the line number of the header parse_channels takes (0 if it raises)
ChannelHeaderAt(ls) ==
    LET marked == {i \in 1..Len(ls) : LineContains(ls[i], "Freeform table")}
        heads == IF marked = {} THEN {}
                 ELSE {i \in HeaderRange(ls, First(marked)) :
                          /\ LineStartsWithComma(ls[i])
                          /\ ~LineContains(ls[i], "Page Views")
                          /\ Len(ls[i]) - 1 >= 4}
    IN  IF heads = {} THEN 0 ELSE First(heads)

\* the file has the double header: the header parse_channels takes holds the
\* five channel names and is followed by a label row that begins with the
\* delimiter
DoubleHeader(ls) ==
    /\ ChannelHeaderAt(ls) # 0
    /\ Range(ChannelCols) \subseteq Range(HeaderNames(ls[ChannelHeaderAt(ls)]))
    /\ ChannelHeaderAt(ls) < Len(ls)
    /\ LineStartsWithComma(ls[ChannelHeaderAt(ls) + 1])

\* C13: a file in which parse_channels finds the marker and a double header
\* is classified 'channels' with confidence at least 0.5 by
\* analyze_csv_structure.
C13_ChannelShapedIsChannels ==
    (kind = "channels" /\ ppc = "parsed" /\ cpc = "done" /\ DoubleHeader(lines)) =>
        (analysis.type = "channels" /\ analysis.confidence >= 5)

\* the line number of the first line that holds the marker (0 if none does)
MarkerAt(ls) ==
    LET marked == {i \in 1..Len(ls) : LineContains(ls[i], "Freeform table")}
    IN  IF marked = {} THEN 0 ELSE First(marked)

\* the lines of the look-ahead after the marker that have the header shape
\* of kind k: single header (traffic) or double header (channels)
CandidateHeaders(ls, k) ==
    {i \in (MarkerAt(ls) + 1)..(MarkerAt(ls) + HeaderWindow - 1) :
        /\ i <= Len(ls)
        /\ LineStartsWithComma(ls[i])
        /\ IF k = "traffic"
           THEN LineContains(ls[i], "Entries") /\ LineContains(ls[i], "Unique Visitors")
           ELSE ~LineContains(ls[i], "Page Views") /\ Len(ls[i]) >= 5}

\* C15: when the file holds the marker but no line of the look-ahead after
\* it has the header shape, the parser raises and returns no table.
C15_NoHeaderRaises ==
    (ppc \in {"parsed", "error"} /\ MarkerAt(lines) # 0
        /\ CandidateHeaders(lines, kind) = {})
    => (ppc = "error" /\ df = <<>> /\ cols = <<>>)

\* C15 witness: a parse that raised on a file that holds the marker, and a
\* header of the right shape only after the look-ahead.
C15_Witness ==
    /\ ppc = "error"
    /\ MarkerAt(lines) # 0
    /\ CandidateHeaders(lines, kind) = {}
    /\ \E i \in DOMAIN lines :
          /\ i > MarkerAt(lines)
          /\ LineStartsWithComma(lines[i])
          /\ LineContains(lines[i], "Entries")

\* C20: when no line of the file holds the marker, the parser raises and
\* returns no table, and analyze_csv_structure returns 'unknown' with
\* confidence 0.
C20_NoMarkerNotFound ==
    MarkerAt(lines) = 0 =>
        /\ ppc \in {"parsed", "error"} => (ppc = "error" /\ df = <<>> /\ cols = <<>>)
        /\ cpc = "done" => (analysis.type = "unknown" /\ analysis.confidence = 0)

\* C20 witness: a file with a header and data lines but no marker, parsed and
\* classified.
C20_Witness ==
    /\ MarkerAt(lines) = 0
    /\ ppc = "error"
    /\ cpc = "done"
    /\ \E i \in DOMAIN lines : lines[i] \in {TrafficHeader, ChannelHeader}
    /\ \E i \in DOMAIN lines : lines[i] = ScenarioLine

\* C18: every classification with confidence below 0.5 has type 'unknown'.
C18_LowConfidenceIsUnknown ==
    cpc = "done" => (analysis.confidence < 5 => analysis.type = "unknown")

\* C18 witness: analyze_file_type has classified a header and a numeric
\* sample with the lowest score that names a family.
C18_Witness ==
    /\ cpc = "done"
    /\ analysis.reason = "Detected"
    /\ Score(analysis.columns, traffic_keywords) + Score(analysis.columns, channels_keywords) = 1

\* the keyword-match count of the family a result names (0 for 'unknown')
WinningCount(columns, type) ==
    IF type = "traffic" THEN Score(columns, traffic_keywords)
    ELSE IF type = "channels" THEN Score(columns, channels_keywords)
    ELSE 0

\* the headers and samples a classification is compared with
ComparedColumns == { Tail(h) : h \in HeaderPool }
ComparedSamples == { <<>>, <<ScenarioLine>>, <<TextLine>> }

\* C19 (as stated): the confidence never exceeds 0.9 and is non-decreasing
\* in the winning family's keyword-match count, over all headers and samples.
C19_MonotonicInCount ==
    (cpc = "done" /\ analysis.columns # <<>>) =>
        /\ analysis.confidence <= 9
        /\ \A c \in ComparedColumns, d \in ComparedSamples :
              LET r == analyze_file_type(c, d)
              IN  WinningCount(c, r.type) >= WinningCount(analysis.columns, analysis.type)
                      => r.confidence >= analysis.confidence

\* C19 (amended): the confidence never exceeds 0.9; among the results decided
\* on a mostly numeric sample (reason "Detected") it is non-decreasing in the
\* winning family's keyword-match count; a result that names a family without
\* such a sample (reason "Uncertain") has confidence 0.6 whatever the count.
C19_MonotonicWhenDetected ==
    (cpc = "done" /\ analysis.columns # <<>>) =>
        /\ analysis.confidence <= 9
        /\ analysis.reason = "Uncertain" => analysis.confidence = 6
        /\ analysis.reason = "Detected" =>
              \A c \in ComparedColumns, d \in ComparedSamples :
                  LET r == analyze_file_type(c, d)
                  IN  ( /\ r.reason = "Detected"
                        /\ WinningCount(c, r.type)
                               >= WinningCount(analysis.columns, analysis.type) )
                      => r.confidence >= analysis.confidence

\* C19 witness: a result decided on a numeric sample whose count reaches the
\* cap.
C19_Witness ==
    /\ cpc = "done"
    /\ analysis.reason = "Detected"
    /\ WinningCount(analysis.columns, analysis.type) > 4
    /\ analysis.confidence = 9

---------------------------------------------------------------------------
(* The web application: batch upload, download and reprocess routes        *)

MaxBatch == 2
MaxRequests == 2

\* the uploads of the route specification
RouteFiles ==
    { \* a traffic export with one IT and one EN page
      <<MarkerLine, TrafficHeader,
        << <<"/", "e", "n", "/", "a", "/">>, <<"1">>, <<"x">>, <<"45">>, <<"100">>, <<"0">> >>,
        << <<"/", "i", "t", "/", "b">>, <<"1">>, <<"0.35">>, <<"45">>, <<"100">>, <<"3">> >> >>,
      \* a channel export
      <<MarkerLine, ChannelHeader, ChannelLabels, ScenarioLine>>,
      \* a file without the marker
      << << <<"#", " ", "x">> >> >>,
      \* the traffic words, but no header line that starts with the delimiter
      <<MarkerLine, << <<"Entries", " ", "Unique Visitors", " ", "Page Views">> >> >>,
      \* a traffic export without data lines
      <<MarkerLine, TrafficHeader>>,
      \* a traffic export without the rate columns
      <<MarkerLine, ShortTrafficHeader, ScenarioLine>> }

\* the names of the uploads, by position in the request
FileNames == <<"a.csv", "b.csv", "c.csv", "d.csv">>

\* an uploaded file: its lines and whether pandas reads it (pd.read_csv and
\* the preview steps of lines 645-654 raise nothing)
UploadedFiles == [content : RouteFiles, readable : BOOLEAN]

\* request.files.getlist("files"): up to MaxBatch uploads, named in order
Uploads ==
    { [i \in DOMAIN fs |-> [filename |-> FileNames[i], content |-> fs[i].content,
                             readable |-> fs[i].readable]] :
        fs \in UNION { [1..n -> UploadedFiles] : n \in 0..MaxBatch } }

\* process_batch lines 637-674: the stored files and the summary entries of
\* the uploads fs, the store holding base files already
RECURSIVE BatchStored(_, _)
BatchStored(fs, base) ==
    IF fs = <<>> THEN <<>>
    ELSE LET f == Head(fs)
         IN  IF f.readable
             THEN <<[StoredFile(f.content, FALSE) EXCEPT !.file_type = DetectedType(f.content)]>>
                      \o BatchStored(Tail(fs), base + 1)
             ELSE BatchStored(Tail(fs), base)

\* the loop with a failure that ends the batch
RECURSIVE BatchEntriesAborting(_, _)
BatchEntriesAborting(fs, base) ==
    IF fs = <<>> THEN <<>>
    ELSE LET f == Head(fs)
         IN  IF f.readable
             THEN << [filename |-> f.filename,
                      type |-> IF DetectedType(f.content) = "none" THEN "unknown"
                               ELSE DetectedType(f.content),
                      token |-> base + 1,
                      status |-> "OK"] >> \o BatchEntriesAborting(Tail(fs), base + 1)
             ELSE <<>>

\* token 0 stands for None
RECURSIVE BatchEntries(_, _)
BatchEntries(fs, base) ==
    IF fs = <<>> THEN <<>>
    ELSE LET f == Head(fs)
         IN  IF f.readable
             THEN << [filename |-> f.filename,
                      type |-> IF DetectedType(f.content) = "none" THEN "unknown"
                               ELSE DetectedType(f.content),
                      token |-> base + 1,
                      status |-> "OK"] >> \o BatchEntries(Tail(fs), base + 1)
             ELSE << [filename |-> f.filename, type |-> "error", token |-> 0,
                      status |-> "Errore"] >> \o BatchEntries(Tail(fs), base)

\* the process_batch route (lines 630-675); an empty upload list redirects.
\* A behaviour holds one batch request that has uploads.
ProcessBatch ==
    /\ summary = <<>>
    /\ \E fs \in Uploads :
          IF fs = <<>>
          THEN /\ response' = "redirect"
               /\ UNCHANGED <<PROCESSED_FILES, files, summary>>
          ELSE /\ files' = fs
               /\ summary' = BatchEntries(fs, Len(PROCESSED_FILES))
               /\ PROCESSED_FILES' = PROCESSED_FILES \o BatchStored(fs, Len(PROCESSED_FILES))
               /\ response' = "page"
    /\ UNCHANGED <<final_results, runs, keyVars, pipeVars, clsVars>>

\* What parsing a stored export and taking its columns does (lines 101-104,
\* 115-118, 716-726): "ValueError" when the parser raises, "KeyError" when
\* the table lacks one of the fixed columns, "ok" otherwise
SplitOutcome(st) ==
    LET r  == IF st.file_type = "channels" THEN parse_channels(st.original)
              ELSE parse_traffic(st.original)
        cs == IF st.file_type = "channels" THEN ChannelCols ELSE TrafficCols
    IN  IF ~r.ok THEN "ValueError"
        ELSE IF ~(Range(cs) \subseteq Range(r.cols)) THEN "KeyError"
        ELSE "ok"

Typed(st) == st.file_type \in {"channels", "traffic"}

\* the download_xlsx route (lines 688-700); token 0 is a token that is not
\* stored.  The workbook is built on demand, outside any try.
DownloadXlsx ==
    /\ runs < MaxRequests
    /\ \E token \in 0..Len(PROCESSED_FILES) :
          IF token = 0
          THEN response' = "redirect" /\ UNCHANGED PROCESSED_FILES
          ELSE LET stored == PROCESSED_FILES[token]
               IN  IF ~stored.processed_xlsx /\ Typed(stored)
                   THEN IF SplitOutcome(stored) = "ok"
                        THEN /\ PROCESSED_FILES' =
                                    [PROCESSED_FILES EXCEPT ![token].processed_xlsx = TRUE]
                             /\ response' = "file"
                        ELSE /\ response' = SplitOutcome(stored)
                             /\ UNCHANGED PROCESSED_FILES
                   ELSE /\ response' = IF stored.processed_xlsx THEN "file" ELSE "redirect"
                        /\ UNCHANGED PROCESSED_FILES
    /\ runs' = runs + 1
    /\ UNCHANGED <<final_results, files, summary, keyVars, pipeVars, clsVars>>

\* a flag that only tells whether this request asked for the normalisation
NormalizedNow(stored, action) == action = "normalize"

\* stored.normalized after a split (lines 729-734): set by action =
\* "normalize" and never cleared
KeepsNormalized(stored, action) == action = "normalize" \/ stored.normalized

\* the reprocess route (lines 704-784) with the form fields token and action;
\* readable: whether pandas reads the stored original again (lines 763-773)
Reprocess ==
    /\ runs < MaxRequests
    /\ \E token \in 0..Len(PROCESSED_FILES), action \in {"split", "normalize", "column"},
          readable \in BOOLEAN :
          IF token = 0
          THEN response' = "redirect" /\ UNCHANGED PROCESSED_FILES
          ELSE LET stored == PROCESSED_FILES[token]
               IN  IF Typed(stored) /\ (action \in {"split", "normalize"} \/ stored.split_done)
                   THEN CASE SplitOutcome(stored) = "ValueError" ->
                                 response' = "redirect" /\ UNCHANGED PROCESSED_FILES
                          [] SplitOutcome(stored) = "KeyError" ->
                                 response' = "KeyError" /\ UNCHANGED PROCESSED_FILES
                          [] OTHER ->
                                 /\ PROCESSED_FILES' =
                                        [PROCESSED_FILES EXCEPT
                                            ![token].normalized =
                                                KeepsNormalized(stored, action),
                                            ![token].processed_xlsx = TRUE,
                                            ![token].split_done = TRUE]
                                 /\ response' = "page"
                   ELSE /\ response' = IF readable THEN "page" ELSE "redirect"
                        /\ UNCHANGED PROCESSED_FILES
    /\ runs' = runs + 1
    /\ UNCHANGED <<final_results, files, summary, keyVars, pipeVars, clsVars>>

\* process_batch_run lines 561-581: the tokens that contribute frames of type
\* typ (stored, typed, parsed and split without an exception)
Contributing(store, tokens, typ) ==
    {i \in DOMAIN tokens :
        /\ tokens[i] \in DOMAIN store
        /\ store[tokens[i]].file_type = typ
        /\ SplitOutcome(store[tokens[i]]) = "ok"}

\* lines 572-573 and 586-590: whether the frames of type typ hold a row of
\* language IT or EN, i.e. whether a workbook of that type gets a sheet.
\* (The keys of the rows are normalised at lines 575-577, which changes no
\* row count.)
HasSheet(store, tokens, typ) ==
    \E i \in Contributing(store, tokens, typ) :
        LET st == store[tokens[i]]
            r  == IF typ = "channels" THEN parse_channels(st.original)
                  ELSE parse_traffic(st.original)
        IN  \E k \in DOMAIN r.rows : r.rows[k].lang \in {"IT", "EN"}

\* lines 591-628: for each workbook the route writes, in order (channels,
\* traffic, combined), whether it gets at least one sheet
BatchRunBooks(store, tokens) ==
    LET ch == Contributing(store, tokens, "channels") # {}
        tr == Contributing(store, tokens, "traffic") # {}
        chSheets == HasSheet(store, tokens, "channels")
        trSheets == HasSheet(store, tokens, "traffic")
    IN  (IF ch THEN <<chSheets>> ELSE <<>>)
            \o (IF tr THEN <<trSheets>> ELSE <<>>)
            \o (IF ch /\ tr THEN <<chSheets \/ trSheets>> ELSE <<>>)

\* the number of workbooks that are saved: all of them, or those before the
\* first one without a sheet when saving that one raises
Saved(books, raises) ==
    LET empty == {i \in DOMAIN books : ~books[i]}
    IN  IF raises /\ empty # {} THEN First(empty) - 1 ELSE Len(books)

\* the process_batch_run route (lines 551-629).  Saving a workbook that got
\* no sheet raises IndexError in openpyxl releases that require a visible
\* sheet: both outcomes are allowed (raises).
ProcessBatchRun ==
    /\ runs < MaxRequests
    /\ \E tokens \in TokenLists \cup {<<>>}, raises \in BOOLEAN :
          IF tokens = <<>>
          THEN response' = "redirect" /\ UNCHANGED PROCESSED_FILES
          ELSE /\ PROCESSED_FILES' =
                      PROCESSED_FILES
                          \o [i \in 1..Saved(BatchRunBooks(PROCESSED_FILES, tokens), raises)
                                |-> StoredFile(XlsxContent, TRUE)]
               /\ response' =
                      IF Saved(BatchRunBooks(PROCESSED_FILES, tokens), raises)
                             < Len(BatchRunBooks(PROCESSED_FILES, tokens))
                      THEN "IndexError" ELSE "page"
    /\ runs' = runs + 1
    /\ UNCHANGED <<final_results, files, summary, keyVars, pipeVars, clsVars>>

InitRoutes ==
    /\ PROCESSED_FILES = <<>>
    /\ final_results = NoResults
    /\ runs = 0
    /\ IdleReq
    /\ IdleKey
    /\ IdlePipe
    /\ IdleCls

NextRoutes == ProcessBatch \/ DownloadXlsx \/ Reprocess \/ ProcessBatchRun

SpecRoutes == InitRoutes /\ [][NextRoutes]_vars

\* the batch upload after single uploads through the process route
NextBatch == Upload \/ ProcessBatch

SpecBatch == InitRoutes /\ [][NextBatch]_vars

\* C14: a stored file has a kind (channels or traffic) only when the
\* exact-vocabulary detector and analyze_csv_structure agree on that kind;
\* when the two disagree the file has no kind
C14_KindOnlyOnAgreement ==
    \A t \in DOMAIN PROCESSED_FILES :
        PROCESSED_FILES[t].file_type # "none" =>
            analyze_csv_structure(PROCESSED_FILES[t].original).type
                = PROCESSED_FILES[t].file_type

\* C16: no request ends with a ValueError of parse_traffic or parse_channels
\* that the route did not catch
C16_NoValueErrorEscapes == response # "ValueError"

\* C17: a batch of n uploads gives n summary entries in upload order, each
\* with the filename, a type and a status that depend on that upload alone;
\* every upload that was handled is stored under its own token with its
\* content and detected type, whatever happened to the other uploads
C17_BatchIsolatesFailures ==
    /\ Len(summary) = Len(files)
    /\ \A i \in DOMAIN files :
          /\ summary[i].filename = files[i].filename
          /\ summary[i].type \in {"channels", "traffic", "unknown", "error"}
          /\ IF files[i].readable
             THEN /\ summary[i].status = "OK"
                  /\ summary[i].type # "error"
                  /\ summary[i].token \in DOMAIN PROCESSED_FILES
                  /\ PROCESSED_FILES[summary[i].token].original = files[i].content
                  /\ PROCESSED_FILES[summary[i].token].file_type
                         = DetectedType(files[i].content)
                  /\ summary[i].type =
                         (IF DetectedType(files[i].content) = "none" THEN "unknown"
                          ELSE DetectedType(files[i].content))
             ELSE /\ summary[i].status = "Errore"
                  /\ summary[i].type = "error"
                  /\ summary[i].token = 0
    /\ \A i, j \in DOMAIN files :
          (files[i].readable /\ files[j].readable /\ i # j)
              => summary[i].token # summary[j].token

\* a batch in which an upload failed and a later one was handled and stored
C17_Witness ==
    \E i, j \in DOMAIN files :
        /\ i < j
        /\ ~files[i].readable
        /\ files[j].readable
        /\ Len(summary) = Len(files)
        /\ summary[i].type = "error"
        /\ summary[j].status = "OK"
        /\ summary[j].token \in DOMAIN PROCESSED_FILES

---------------------------------------------------------------------------
(* The parsers' key normaliser applied to its own result                   *)

\* _normalize_key applied to a page identifier (parse_traffic line 50)
NormalizeKey ==
    /\ kpc = "raw"
    /\ out1' = normalize_key(raw)
    /\ kpc' = "key once"
    /\ UNCHANGED <<raw, out2, pipeVars, appVars, clsVars, reqVars>>

\* _normalize_key applied to an ArticleKey (attach_titles line 186)
NormalizeKeyAgain ==
    /\ kpc = "key once"
    /\ out2' = normalize_key(out1)
    /\ kpc' = "key twice"
    /\ UNCHANGED <<raw, out1, pipeVars, appVars, clsVars, reqVars>>

NextNormKey == NormalizeKey \/ NormalizeKeyAgain

SpecNormKey == InitKey /\ [][NextNormKey]_vars

\* C21: _normalize_key is idempotent: applied to an already normalised key
\* it returns that key.
C21_NormalizeKeyIdempotent == kpc = "key twice" => out2 = out1

---------------------------------------------------------------------------
(* The header search of the parsers                                        *)

\* C22: parse_channels takes as header the first line of the look-ahead that
\* begins with ',', has at least 4 comma-separated fields and does not hold
\* 'Page Views'; a line with exactly 4 fields qualifies.
C22_FourFieldHeader ==
    (kind = "channels" /\ ppc \in {"parsed", "error"} /\ MarkerAt(lines) # 0) =>
        LET q == {i \in HeaderRange(lines, MarkerAt(lines)) :
                     /\ LineStartsWithComma(lines[i])
                     /\ Len(lines[i]) >= 4
                     /\ ~LineContains(lines[i], "Page Views")}
        IN  q # {} => (ppc = "parsed" /\ cols = HeaderNames(lines[First(q)]))

\* the header test of the parser of kind k on one line (lines 28 and 61)
HasHeaderShape(ln, k) ==
    /\ LineStartsWithComma(ln)
    /\ IF k = "traffic"
       THEN LineContains(ln, "Entries") /\ LineContains(ln, "Unique Visitors")
       ELSE ~LineContains(ln, "Page Views") /\ Len(ln) - 1 >= 4

\* C23: the header search covers the 50 lines after the marker line: a
\* header k lines after the marker is found for every k from 1 to 50, and a
\* file whose only headers lie further away fails with header-not-found.
C23_WindowOfFiftyLines ==
    (ppc \in {"parsed", "error"} /\ MarkerAt(lines) # 0) =>
        LET q == {i \in DOMAIN lines :
                     i > MarkerAt(lines) /\ HasHeaderShape(lines[i], kind)}
        IN  /\ (\E i \in q : i - MarkerAt(lines) <= HeaderWindow) => ppc = "parsed"
            /\ (q # {} /\ \A i \in q : i - MarkerAt(lines) > HeaderWindow) => ppc = "error"

---------------------------------------------------------------------------
(* The row loop of the parsers                                             *)

\* the parser has raised (an aggregator that raises leaves cols in place)
ParseRaised == ppc = "error" /\ cols = <<>>

\* the lines of the data block that end row extraction: a blank line or a
\* line that begins with the delimiter (lines 34-37, 68-71)
Terminators(ls) ==
    {i \in DataStart..Len(ls) : LineIsBlank(ls[i]) \/ LineStartsWithComma(ls[i])}

\* C24: row extraction stops without error at the first blank line or the
\* first line that starts with ',' after the data start: the rows are those
\* of the file cut before that line, and no later line gives a row.
C24_StopsAtTerminator ==
    (ppc # "file" /\ Terminators(lines) # {}) =>
        /\ ~ParseRaised
        /\ df = Parsed(SubSeq(lines, 1, First(Terminators(lines)) - 1)).rows

\* C24 witness: a parsed file with a row before the first terminator and a
\* full data line after it.
C24_Witness ==
    /\ ppc = "parsed"
    /\ Terminators(lines) # {}
    /\ df # <<>>
    /\ \E i \in DOMAIN lines :
          /\ i > First(Terminators(lines))
          /\ lines[i] = ScenarioLine

\* the data lines with fewer than n fields that the row loop passes over:
\* neither blank, nor starting with the delimiter or the truncation marker
\* (lines 38-43, 72-77)
Skipped(ls, n) ==
    {i \in DataStart..Len(ls) :
        /\ Len(ls[i]) < n
        /\ ~LineIsBlank(ls[i])
        /\ ~LineStartsWithComma(ls[i])
        /\ ~LineStartsWithDots(ls[i])}

\* the file ls without the lines numbered in S
Without(ls, S) ==
    LET keep == {i \in DOMAIN ls : i \notin S}
        Nth(k) == CHOOSE i \in keep : Cardinality({j \in keep : j <= i}) = k
    IN  [k \in 1..Cardinality(keep) |-> ls[Nth(k)]]

\* C25: a data line with fewer fields than the header that does not start
\* with the truncation marker is skipped and extraction goes on: the rows
\* are those of the same file without its short lines, so the short line
\* gives no row and every later eligible line still gives one.
C25_ShortLineSkipped ==
    (ppc # "file" /\ ~ParseRaised) =>
        df = Parsed(Without(lines, Skipped(lines, 1 + Len(cols)))).rows

\* C25 witness: a parsed file whose first data line is short and that has a
\* row from a later line.
C25_Witness ==
    /\ ppc = "parsed"
    /\ DataStart \in Skipped(lines, 1 + Len(cols))
    /\ df # <<>>

\* the data lines the row loop accepts, cut to the header's width, without
\* the totals row that line 46 (81) drops
Accepted(ls, n) ==
    LET NotTotals(r) == r[1] # <<"P", "a", "g", "e">>
    IN  SelectSeq(ExtractRows(ls, DataStart, n), NotTotals)

\* C26: every accepted data line gives exactly one row; a metric cell that
\* is not a number becomes a missing value and the other cells of the row
\* keep their parsed values; nothing is raised.
C26_CoercionKeepsRows ==
    (ppc # "file" /\ ~ParseRaised) =>
        LET acc == Accepted(lines, 1 + Len(cols))
        IN  /\ Len(df) = Len(acc)
            /\ \A i \in DOMAIN df :
                  /\ df[i].Page = acc[i][1]
                  /\ \A j \in DOMAIN cols :
                        LET cell == acc[i][1 + j]
                        IN  IF Len(cell) = 1 /\ cell[1] \in NumberWords
                            THEN df[i].m[cols[j]] = WordValue(cell[1])
                            ELSE df[i].m[cols[j]] = NaN

\* C26 witness: a parsed row with a missing cell next to a parsed one.
C26_Witness ==
    /\ ppc = "parsed"
    /\ \E i \in DOMAIN df :
          /\ df[i].m["Entries"] = Num(1)
          /\ \E c \in Range(cols) : df[i].m[c] = NaN

---------------------------------------------------------------------------
(* The classifier's decision and the sample rows                           *)

\* C27: when the sample is not mostly numeric and a keyword score is not
\* zero, analyze_file_type names the higher-scoring family with a confidence
\* strictly below the one it gives the same columns with a mostly numeric
\* sample; when both scores are zero it returns 'unknown'.
C27_FallbackIsReduced ==
    (cpc = "done" /\ analysis.columns # <<>>) =>
        LET ts == Score(analysis.columns, traffic_keywords)
            cs == Score(analysis.columns, channels_keywords)
        IN  /\ (ts = 0 /\ cs = 0) => analysis.type = "unknown"
            /\ analysis.reason = "Uncertain" =>
                  /\ analysis.type = IF ts >= cs THEN "traffic" ELSE "channels"
                  /\ \A d \in ComparedSamples :
                        MostlyNumeric(d) =>
                            analysis.confidence
                                < analyze_file_type(analysis.columns, d).confidence

\* C28: the type analyze_file_type returns depends on the columns only: for
\* columns with a non-zero keyword score every sample gives the same type.
C28_TypeIgnoresSample ==
    (cpc = "done" /\ analysis.columns # <<>>
        /\ Score(analysis.columns, traffic_keywords)
               + Score(analysis.columns, channels_keywords) > 0) =>
        \A d \in ComparedSamples :
            analyze_file_type(analysis.columns, d).type = analysis.type

---------------------------------------------------------------------------
(* The locale split of the routes, applied to a parsed table               *)

\* df[df["lang"] == lang][["ArticleKey"] + cols] with ArticleKey as parsed
\* (reprocess lines 725-726 when neither action = "normalize" nor
\* stored.normalized)
SplitRaw(rows, lang, cs) ==
    LET IsLang(r) == r.lang = lang
        sub == SelectSeq(rows, IsLang)
    IN  [i \in 1..Len(sub) |->
            [ArticleKey |-> sub[i].ArticleKey, m |-> [c \in Range(cs) |-> sub[i].m[c]]]]

\* The split step of process_all (lines 449-456), process_batch_run (lines
\* 572-577) and reprocess (lines 725-734) on the parsed table df; normalize
\* is FALSE only in reprocess.  Selecting a column the table lacks raises
\* KeyError.
SplitLocales ==
    /\ ppc = "parsed"
    /\ \E normalize \in BOOLEAN :
          LET cs == IF kind = "channels" THEN ChannelCols ELSE TrafficCols
              it == IF normalize THEN SplitNormalized(df, "IT", cs) ELSE SplitRaw(df, "IT", cs)
              en == IF normalize THEN SplitNormalized(df, "EN", cs) ELSE SplitRaw(df, "EN", cs)
          IN  IF Range(cs) \subseteq Range(cols)
              THEN /\ ppc' = "split"
                   /\ final_results' =
                          IF kind = "channels"
                          THEN [NoResults EXCEPT !.channels_it = it, !.channels_en = en]
                          ELSE [NoResults EXCEPT !.traffic_it = it, !.traffic_en = en]
              ELSE /\ ppc' = "error"
                   /\ UNCHANGED final_results
    /\ UNCHANGED <<PROCESSED_FILES, runs, lines, kind, cols, df, agg,
                   keyVars, clsVars, reqVars>>

NextSplit == ParseTraffic \/ ParseChannels \/ SplitLocales

SpecSplit == InitPipe /\ [][NextSplit]_vars

\* the positions of the rows of lang in the parsed table d
LangRows(d, lang) == {i \in DOMAIN d : d[i].lang = lang}

\* table t holds exactly the rows of d numbered in S, once each and in the
\* order of d, with the metric values of d; the key is the parsed
\* ArticleKey, or the display name of that key without its locale prefix
HoldsRows(t, d, S) ==
    /\ Len(t) = Cardinality(S)
    /\ \A k \in DOMAIN t :
          LET n == CHOOSE i \in S : Cardinality({j \in S : j <= i}) = k
          IN  /\ \A c \in DOMAIN t[k].m : t[k].m[c] = d[n].m[c]
              /\ t[k].ArticleKey \in
                     { d[n].ArticleKey,
                       extract_name_from_key(
                           normalize_articlekey_for_split(d[n].ArticleKey), TRUE) }

\* C29: the IT table holds exactly the rows of the parsed table with lang
\* IT and the EN table exactly those with lang EN, once each and in source
\* order; the lang that decides is the one of the parsed key, which still
\* has its locale prefix; rows with lang OTHER are in no table, and the
\* tables of the other kind stay empty.
C29_SplitConservesRows ==
    ppc = "split" =>
        LET it == IF kind = "channels" THEN final_results.channels_it
                  ELSE final_results.traffic_it
            en == IF kind = "channels" THEN final_results.channels_en
                  ELSE final_results.traffic_en
        IN  /\ HoldsRows(it, df, LangRows(df, "IT"))
            /\ HoldsRows(en, df, LangRows(df, "EN"))
            /\ \A i \in LangRows(df, "IT") : StartsWith(df[i].ArticleKey, <<"/", "i", "t", "/">>)
            /\ \A i \in LangRows(df, "EN") : StartsWith(df[i].ArticleKey, <<"/", "e", "n", "/">>)
            /\ Len(it) + Len(en) + Cardinality(LangRows(df, "OTHER")) = Len(df)
            /\ IF kind = "channels"
               THEN final_results.traffic_it = <<>> /\ final_results.traffic_en = <<>>
               ELSE final_results.channels_it = <<>> /\ final_results.channels_en = <<>>

\* C29 witness: a split of a table with an IT row, an EN row and a row of
\* neither locale, the keys of the tables without their locale prefix.
C29_Witness ==
    /\ ppc = "split"
    /\ LangRows(df, "IT") # {}
    /\ LangRows(df, "EN") # {}
    /\ LangRows(df, "OTHER") # {}
    /\ \E k \in DOMAIN final_results :
          \E i \in DOMAIN final_results[k] :
              ~StartsWith(final_results[k][i].ArticleKey, <<"/">>)

---------------------------------------------------------------------------
(* The flags of a stored upload over the single-file routes                *)

\* the preview route (lines 381-408) for an upload stored by process, whose
\* original_preview is set: it reads the entry and changes nothing
PreviewToken ==
    /\ runs < MaxRequests
    /\ \E token \in 0..Len(PROCESSED_FILES) :
          response' = IF token = 0 THEN "redirect" ELSE "page"
    /\ runs' = runs + 1
    /\ UNCHANGED <<PROCESSED_FILES, final_results, files, summary,
                   keyVars, pipeVars, clsVars>>

\* the download route (lines 678-685): the processed CSV of the entry
Download ==
    /\ runs < MaxRequests
    /\ \E token \in 0..Len(PROCESSED_FILES) :
          response' = IF token = 0 THEN "redirect" ELSE "file"
    /\ runs' = runs + 1
    /\ UNCHANGED <<PROCESSED_FILES, final_results, files, summary,
                   keyVars, pipeVars, clsVars>>

NextFlags == Upload \/ PreviewToken \/ Download \/ Reprocess \/ DownloadXlsx

SpecFlags == InitRoutes /\ [][NextFlags]_vars

====
